---- MODULE Spec2Model ----
(***************************************************************************)
(* The PPO training driver of playground/train.py (function main) as a     *)
(* state machine, together with the rollout storage it drives.             *)
(*                                                                         *)
(* The driver is translated from src/playground/train.py.  The rollout     *)
(* storage (algorithms.storage.RolloutStorage) is not among the sources;   *)
(* its insert / compute_returns / after_update are modelled from the       *)
(* written design (sections 3 and 4.1).                                    *)
(*                                                                         *)
(* Observations and recurrent states are abstracted to frame identities:   *)
(* the k-th batch of observations the environment returns is the token k   *)
(* (reset returns 0), the recurrent state the k-th act call returns is the *)
(* token k.  Rewards and values are small integers, the discount factors   *)
(* exact rationals <<numerator, denominator>>.  The actions, their log     *)
(* probabilities and the bad_masks are stored by insert but read by none   *)
(* of the operations modelled here, and are left out; so is the value of   *)
(* the scheduled learning rate.  A checkpoint file is identified by its    *)
(* tag and holds the number of updates the saved model has received.       *)
(***************************************************************************)
EXTENDS Integers, Sequences, FiniteSets, TLC

VARIABLES
    cfg,              \* args: the configuration main() reads
    num_updates,      \* train.py:184
    j,                \* loop index of `for j in range(num_updates)`
    step,             \* loop index of `for step in range(args.num_steps)`
    pc,               \* position of main() in its loop body
    rollouts,         \* the RolloutStorage object
    current_obs,      \* train.py:167
    env,              \* the vectorized environment: frame counter, last done flags, and the
                      \* rewards and "episode" records its steps can return
    critic,           \* the values the critic head of actor_critic can return
    act_out,          \* what the last actor_critic.act call was given and returned
    next_value,       \* train.py:244
    episode_rewards,  \* train.py:183, deque(maxlen=num_processes)
    next_checkpoint,  \* train.py:187
    max_ep_reward,    \* train.py:188
    model_ver,        \* number of agent.update calls applied to actor_critic
    drive,            \* files under the Drive directory: tag -> model version
    disk,             \* files under args.save_dir: tag -> model version
    log,              \* records handed to logger.log_epoch
    calls,            \* calls made to the collaborators in the current iteration
    inserts           \* total number of rollouts.insert calls

vars == <<cfg, num_updates, j, step, pc, rollouts, current_obs, env, critic, act_out,
          next_value, episode_rewards, next_checkpoint, max_ep_reward,
          model_ver, drive, disk, log, calls, inserts>>

----------------------------------------------------------------------------
(* Bounds of the model. *)

MaxProcs == 2
MaxSteps == 2
MaxFrames == 4
MaxSaveEvery == 3

----------------------------------------------------------------------------
(* Exact rational arithmetic, standing for the driver's float tensors. *)

RECURSIVE Gcd(_, _)
Gcd(a, b) == IF b = 0 THEN a ELSE Gcd(b, a % b)

Abs(x) == IF x < 0 THEN -x ELSE x

Rat(n, d) ==
    LET g == Gcd(Abs(n), Abs(d))
        s == IF d < 0 THEN -1 ELSE 1
    IN  IF n = 0 THEN <<0, 1>> ELSE <<s * (n \div g), s * (d \div g)>>

RInt(n) == <<n, 1>>
RAdd(a, b) == Rat(a[1] * b[2] + b[1] * a[2], a[2] * b[2])
RSub(a, b) == Rat(a[1] * b[2] - b[1] * a[2], a[2] * b[2])
RMul(a, b) == Rat(a[1] * b[1], a[2] * b[2])
RGt(a, b) == a[1] * b[2] > b[1] * a[2]

NegInf == <<-1, 0>>     \* float("-inf"): below every rational, RGt(a, NegInf) for every a

RECURSIVE SumSeq(_)
SumSeq(q) == IF q = <<>> THEN 0 ELSE Head(q) + SumSeq(Tail(q))

\* np.mean over the deque (read only when the deque is not empty)
Mean(q) == Rat(SumSeq(q), Len(q))

----------------------------------------------------------------------------
(* The rollout storage (design sections 3 and 4.1). *)

Envs == 0 .. (cfg.num_processes - 1)

\* a tensor of zeros no frame has been copied into (torch.zeros), as opposed to
\* the frames 0, 1, 2, ... the environment returns
Blank == 0 - 1

NewStorage(T, E) ==
    [ observations |-> [s \in 0 .. T |-> Blank],
      states       |-> [s \in 0 .. T |-> 0],
      masks        |-> [s \in 0 .. T |-> [e \in E |-> 1]],
      rewards      |-> [s \in 0 .. (T - 1) |-> [e \in E |-> 0]],
      values       |-> [s \in 0 .. (T - 1) |-> [e \in E |-> 0]],
      returns      |-> [s \in 0 .. T |-> [e \in E |-> RInt(0)]],
      step         |-> 0 ]

\* insert: one timestep into the length-T sequences at the next free slot,
\* one frame into the length-(T+1) sequences at the slot after it
Insert(r, obs, st, value, reward, mask) ==
    [ r EXCEPT !.observations[r.step + 1] = obs,
               !.states[r.step + 1] = st,
               !.masks[r.step + 1] = mask,
               !.values[r.step] = value,
               !.rewards[r.step] = reward,
               !.step = r.step + 1 ]

\* compute_returns for one environment's column; rew, val are indexed 0..T-1,
\* msk and old (the returns held before the call) 0..T
ReturnsCol(rew, val, msk, boot, use_gae, gamma, lambda, T, old) ==
    LET V(t) == IF t = T THEN RInt(boot) ELSE RInt(val[t])
        M(t) == RInt(msk[t])
        delta(t) == RSub(RAdd(RInt(rew[t]), RMul(RMul(gamma, V(t + 1)), M(t + 1))), V(t))
        gae[t \in 0 .. T] ==
            IF t = T THEN RInt(0)
            ELSE RAdd(delta(t), RMul(RMul(RMul(gamma, lambda), M(t + 1)), gae[t + 1]))
        nstep[t \in 0 .. T] ==
            IF t = T THEN RInt(boot)
            ELSE RAdd(RMul(RMul(nstep[t + 1], gamma), M(t + 1)), RInt(rew[t]))
    IN  [t \in 0 .. T |->
            IF use_gae
            THEN (IF t = T THEN old[t] ELSE RAdd(gae[t], V(t)))
            ELSE nstep[t]]

ComputeReturnsOp(r, boot, use_gae, gamma, lambda, T, E) ==
    LET col(e) == ReturnsCol([t \in 0 .. (T - 1) |-> r.rewards[t][e]],
                             [t \in 0 .. (T - 1) |-> r.values[t][e]],
                             [t \in 0 .. T |-> r.masks[t][e]],
                             boot[e], use_gae, gamma, lambda, T,
                             [t \in 0 .. T |-> r.returns[t][e]])
    IN  [r EXCEPT !.returns = [t \in 0 .. T |-> [e \in E |-> col(e)[t]]]]

\* after_update: slot T of observations, recurrent states and masks becomes slot 0
AfterUpdateOp(r, T) ==
    [ r EXCEPT !.observations[0] = r.observations[T],
               !.states[0] = r.states[T],
               !.masks[0] = r.masks[T],
               !.step = 0 ]

----------------------------------------------------------------------------
(* The driver: main() of playground/train.py. *)

\* (mutant of NumUpdates: the division by the number of processes forgotten)
NumUpdatesNoProcs(frames, steps, procs) == frames \div steps

\* train.py:184   int(args.num_frames) // args.num_steps // args.num_processes
NumUpdates(frames, steps, procs) == (frames \div steps) \div procs

\* (mutant of MaskOf: the two branches exchanged)
MaskOfInverted(done_) == IF done_ THEN 1 ELSE 0

\* train.py:228   [0.0] if done_ else [1.0]
MaskOf(done_) == IF done_ THEN 0 ELSE 1

\* (mutant of UpdateCurrentObs: the new frame is not copied in)
KeepCurrentObs(cur, obs) == cur

\* train.py:169-172   current_obs[:, -shape_dim0:] = obs
UpdateCurrentObs(cur, obs) == obs

\* train.py:183, 226   append to a deque(maxlen=...)
DequeAppend(q, x, maxlen) ==
    IF Len(q) >= maxlen THEN Append(Tail(q), x) ELSE Append(q, x)

\* the infos one environment step can return: an info is <<>> when it has no
\* "episode" key and <<r>> when info["episode"]["r"] = r
Infos(E, rs) == [E -> {<<>>} \cup {<<r>> : r \in rs}]

\* train.py:219-226   the infos are read in p_index order; the reward of every
\* info that has the key "episode" is appended, whatever the done flags are
RECURSIVE AppendEpisodes(_, _, _, _)
AppendEpisodes(q, e, infos, n) ==
    IF e >= n THEN q
    ELSE AppendEpisodes(IF infos[e] # <<>> THEN DequeAppend(q, infos[e][1], n) ELSE q,
                        e + 1, infos, n)

\* (mutant of MoreSteps: one step too many)
MoreStepsOffByOne(s) == s <= cfg.num_steps

\* train.py:205   for step in range(args.num_steps)
MoreSteps(s) == s < cfg.num_steps

\* train.py:209-211   the slot actor_critic.act reads
ActSlot(s) == s

\* train.py:254
FrameCount(jj) == (jj + 1) * cfg.num_steps * cfg.num_processes

\* (mutant of Numbered: the frame-count test dropped)
NumberedAnyIteration == cfg.save_dir # ""

\* train.py:255-257
Numbered ==
    (~RGt(next_checkpoint, RInt(FrameCount(j))) \/ j = num_updates - 1) /\ cfg.save_dir # ""

\* train.py:258   int(next_checkpoint), of a float that is not negative
IntOf(x) == x[1] \div x[2]

\* (mutant of CheckpointTag: every checkpoint goes to "latest")
CheckpointTagLatest == <<"latest", 0>>

\* train.py:258, 261   the tag in the file name "{env_name}_{tag}.pt"
CheckpointTag ==
    IF Numbered THEN <<"numbered", IntOf(next_checkpoint)>> ELSE <<"latest", 0>>

\* train.py:274
BestTag == <<"best", 0>>

\* (mutant of Improved: >= for >)
ImprovedOrEqual ==
    Len(episode_rewards) > 1 /\ ~RGt(max_ep_reward, Mean(episode_rewards))

\* train.py:273
Improved == Len(episode_rewards) > 1 /\ RGt(Mean(episode_rewards), max_ep_reward)

\* (mutant of Loggable: a window of one episode is logged too)
LoggableNonEmpty == Len(episode_rewards) > 0

\* train.py:282
Loggable == Len(episode_rewards) > 1

\* torch.save(save_model, path): the file at path now holds the model
Write(files, tag) == (tag :> model_ver) @@ files

\* (mutant of ComputeReturnsCall: gamma and gae_lambda exchanged)
ComputeReturnsCallSwapped(r, boot) ==
    ComputeReturnsOp(r, boot, cfg.use_gae, cfg.gae_lambda, cfg.gamma, cfg.num_steps, Envs)

\* train.py:248   rollouts.compute_returns(next_value, args.use_gae, args.gamma, args.gae_lambda)
ComputeReturnsCall(r, boot) ==
    ComputeReturnsOp(r, boot, cfg.use_gae, cfg.gamma, cfg.gae_lambda, cfg.num_steps, Envs)

Call(name, arg) == Append(calls, <<name, arg>>)

\* the rewards an environment step can return
Rewards == {0, 1}

Gammas == {<<1, 2>>}
Lambdas == {<<1, 2>>}

\* save_every is a float (train.py:63): the multiples of 1/2 up to MaxSaveEvery
SaveEverys == {Rat(k, 2) : k \in 1 .. (2 * MaxSaveEvery)}

Configs ==
    [ num_frames    : 0 .. MaxFrames,
      num_steps     : 1 .. MaxSteps,
      num_processes : 1 .. MaxProcs,
      save_every    : SaveEverys,
      save_dir      : {"", "models"},
      use_gae       : BOOLEAN,
      gamma         : Gammas,
      gae_lambda    : Lambdas ]

\* train.py:104-192: the state when the loop is entered
InitWith(c, vs, rs, es) ==
    /\ cfg = c
    /\ critic = vs
    /\ num_updates = NumUpdates(c.num_frames, c.num_steps, c.num_processes)
    /\ j = 0
    /\ step = 0
    /\ pc = "for_j"
    /\ current_obs = UpdateCurrentObs(Blank, 0)
    /\ rollouts = [NewStorage(c.num_steps, 0 .. (c.num_processes - 1))
                      EXCEPT !.observations[0] = UpdateCurrentObs(Blank, 0)]
    /\ env = [ t |-> 0,
               done |-> [e \in 0 .. (c.num_processes - 1) |-> FALSE],
               rewards |-> rs,
               episodes |-> es ]
    /\ act_out = [ slot |-> 0, obs |-> 0, state |-> 0,
                   mask |-> [e \in 0 .. (c.num_processes - 1) |-> 1],
                   value |-> [e \in 0 .. (c.num_processes - 1) |-> 0],
                   states |-> 0 ]
    /\ next_value = [e \in 0 .. (c.num_processes - 1) |-> 0]
    /\ episode_rewards = <<>>
    /\ next_checkpoint = c.save_every
    /\ max_ep_reward = NegInf
    /\ model_ver = 0
    /\ drive = <<>>
    /\ disk = <<>>
    /\ log = <<>>
    /\ calls = <<>>
    /\ inserts = 0

\* the episode rewards an info can report
EpisodeRewards == {1, 2}

Init == \E c \in Configs : InitWith(c, {0}, Rewards, EpisodeRewards)

\* train.py:194   for j in range(num_updates)
ForJ ==
    /\ pc = "for_j"
    /\ pc' = IF j < num_updates THEN "set_lr" ELSE "done"
    /\ UNCHANGED <<cfg, critic, num_updates, j, step, rollouts, current_obs, env, act_out,
                   next_value, episode_rewards, next_checkpoint, max_ep_reward,
                   model_ver, drive, disk, log, calls, inserts>>

\* train.py:196-205
SetLr ==
    /\ pc = "set_lr"
    /\ calls' = <<<<"set_optimizer_lr", j>>>>
    /\ step' = 0
    /\ pc' = IF MoreSteps(0) THEN "act" ELSE "get_value"
    /\ UNCHANGED <<cfg, critic, num_updates, j, rollouts, current_obs, env, act_out,
                   next_value, episode_rewards, next_checkpoint, max_ep_reward,
                   model_ver, drive, disk, log, inserts>>

\* train.py:207-213
Act ==
    /\ pc = "act"
    /\ \E value \in [Envs -> critic] :
          act_out' = [ slot   |-> ActSlot(step),
                       obs    |-> rollouts.observations[ActSlot(step)],
                       state  |-> rollouts.states[ActSlot(step)],
                       mask   |-> rollouts.masks[ActSlot(step)],
                       value  |-> value,
                       states |-> env.t + 1 ]
    /\ calls' = Call("act", ActSlot(step))
    /\ pc' = "env_step"
    /\ UNCHANGED <<cfg, critic, num_updates, j, step, rollouts, current_obs, env,
                   next_value, episode_rewards, next_checkpoint, max_ep_reward,
                   model_ver, drive, disk, log, inserts>>

\* train.py:215-241
StepEnv ==
    /\ pc = "env_step"
    /\ \E done \in [Envs -> BOOLEAN], reward \in [Envs -> env.rewards],
          infos \in Infos(Envs, env.episodes) :
          LET obs == env.t + 1
              masks == [e \in Envs |-> MaskOf(done[e])]
          IN  /\ env' = [env EXCEPT !.t = obs, !.done = done]
              /\ episode_rewards' =
                     AppendEpisodes(episode_rewards, 0, infos, cfg.num_processes)
              /\ current_obs' = UpdateCurrentObs(current_obs, obs)
              /\ rollouts' = Insert(rollouts, UpdateCurrentObs(current_obs, obs),
                                    act_out.states, act_out.value, reward, masks)
    /\ inserts' = inserts + 1
    /\ calls' = Append(Call("env_step", step), <<"insert", step>>)
    /\ step' = step + 1
    /\ pc' = IF MoreSteps(step + 1) THEN "act" ELSE "get_value"
    /\ UNCHANGED <<cfg, critic, num_updates, j, act_out, next_value, next_checkpoint,
                   max_ep_reward, model_ver, drive, disk, log>>

\* train.py:243-246
GetValue ==
    /\ pc = "get_value"
    /\ next_value' \in [Envs -> critic]
    /\ calls' = Call("get_value", cfg.num_steps)
    /\ pc' = "compute_returns"
    /\ UNCHANGED <<cfg, critic, num_updates, j, step, rollouts, current_obs, env, act_out,
                   episode_rewards, next_checkpoint, max_ep_reward,
                   model_ver, drive, disk, log, inserts>>

\* train.py:248
ComputeReturns ==
    /\ pc = "compute_returns"
    /\ rollouts' = ComputeReturnsCall(rollouts, next_value)
    /\ calls' = Call("compute_returns", rollouts.step)
    /\ pc' = "update"
    /\ UNCHANGED <<cfg, critic, num_updates, j, step, current_obs, env, act_out,
                   next_value, episode_rewards, next_checkpoint, max_ep_reward,
                   model_ver, drive, disk, log, inserts>>

\* train.py:250
Update ==
    /\ pc = "update"
    /\ model_ver' = model_ver + 1
    /\ calls' = Call("update", rollouts.step)
    /\ pc' = "after_update"
    /\ UNCHANGED <<cfg, critic, num_updates, j, step, rollouts, current_obs, env, act_out,
                   next_value, episode_rewards, next_checkpoint, max_ep_reward,
                   drive, disk, log, inserts>>

\* train.py:252
AfterUpdate ==
    /\ pc = "after_update"
    /\ rollouts' = AfterUpdateOp(rollouts, cfg.num_steps)
    /\ calls' = Call("after_update", rollouts.step)
    /\ pc' = "save"
    /\ UNCHANGED <<cfg, critic, num_updates, j, step, current_obs, env, act_out,
                   next_value, episode_rewards, next_checkpoint, max_ep_reward,
                   model_ver, drive, disk, log, inserts>>

\* train.py:254-271: the Drive copy is written first, then the copy in save_dir;
\* torch.save raises when a write fails and nothing catches it
SaveCheckpoint ==
    /\ pc = "save"
    /\ next_checkpoint' = IF Numbered THEN RAdd(next_checkpoint, cfg.save_every)
                          ELSE next_checkpoint
    /\ calls' = Call("save", j)
    /\ \E outcome \in {"ok", "drive_fails", "disk_fails"} :
          /\ drive' = IF outcome = "drive_fails" THEN drive ELSE Write(drive, CheckpointTag)
          /\ disk' = IF outcome = "ok" THEN Write(disk, CheckpointTag) ELSE disk
          /\ pc' = IF outcome = "ok" THEN "save_best" ELSE "crashed"
    /\ UNCHANGED <<cfg, critic, num_updates, j, step, rollouts, current_obs, env, act_out,
                   next_value, episode_rewards, max_ep_reward, model_ver, log, inserts>>

\* train.py:273-280
SaveBest ==
    /\ pc = "save_best"
    /\ IF Improved
       THEN /\ max_ep_reward' = Mean(episode_rewards)
            /\ calls' = Call("save_best", j)
            /\ \E outcome \in {"ok", "drive_fails", "disk_fails"} :
                  /\ drive' = IF outcome = "drive_fails" THEN drive ELSE Write(drive, BestTag)
                  /\ disk' = IF outcome = "ok" THEN Write(disk, BestTag) ELSE disk
                  /\ pc' = IF outcome = "ok" THEN "log" ELSE "crashed"
       ELSE /\ pc' = "log"
            /\ UNCHANGED <<max_ep_reward, calls, drive, disk>>
    /\ UNCHANGED <<cfg, critic, num_updates, j, step, rollouts, current_obs, env, act_out,
                   next_value, episode_rewards, next_checkpoint, model_ver, log, inserts>>

\* train.py:282-295, and the loop's next index
LogEpoch ==
    /\ pc = "log"
    /\ IF Loggable
       THEN /\ log' = Append(log, [ iter |-> j + 1,
                                    total_num_steps |-> (j + 1) * cfg.num_processes * cfg.num_steps ])
            /\ calls' = Call("log_epoch", j)
       ELSE UNCHANGED <<log, calls>>
    /\ j' = j + 1
    /\ pc' = "for_j"
    /\ UNCHANGED <<cfg, critic, num_updates, step, rollouts, current_obs, env, act_out,
                   next_value, episode_rewards, next_checkpoint, max_ep_reward,
                   model_ver, drive, disk, inserts>>

Next ==
    \/ ForJ
    \/ SetLr
    \/ Act
    \/ StepEnv
    \/ GetValue
    \/ ComputeReturns
    \/ Update
    \/ AfterUpdate
    \/ SaveCheckpoint
    \/ SaveBest
    \/ LogEpoch

Spec == Init /\ [][Next]_vars

----------------------------------------------------------------------------
(* Properties of the training loop. *)

\* The calls one complete iteration jj makes before it saves and logs.
IterationPattern(T, jj) ==
    [i \in 1 .. (3 * T + 5) |->
        IF i = 1 THEN <<"set_optimizer_lr", jj>>
        ELSE IF i <= 3 * T + 1
             THEN LET s == (i - 2) \div 3
                      k == (i - 2) % 3
                  IN  IF k = 0 THEN <<"act", s>>
                      ELSE IF k = 1 THEN <<"env_step", s>> ELSE <<"insert", s>>
        ELSE IF i = 3 * T + 2 THEN <<"get_value", T>>
        ELSE IF i = 3 * T + 3 THEN <<"compute_returns", T>>
        ELSE IF i = 3 * T + 4 THEN <<"update", T>>
        ELSE <<"after_update", T>>]

CountCalls(name) == Cardinality({i \in 1 .. Len(calls) : calls[i][1] = name})

\* C1: in every iteration the calls are, in this order: one learning-rate push,
\* num_steps times (act on slot step, environment step, insert), one get_value on
\* the last slot, one compute_returns (on a full buffer), one update, one
\* after_update, and only then the saving and logging; insert is called at most
\* num_steps times between two after_update calls.
C1_CallOrder ==
    LET P == IterationPattern(cfg.num_steps,
                              IF pc \in {"for_j", "set_lr", "done"} THEN j - 1 ELSE j)
    IN  /\ \A i \in 1 .. Len(calls) :
              IF i <= Len(P) THEN calls[i] = P[i]
              ELSE calls[i][1] \in {"save", "save_best", "log_epoch"}
        /\ CountCalls("insert") <= cfg.num_steps
        /\ rollouts.step <= cfg.num_steps
        /\ pc \in {"save_best", "log", "crashed"} => Len(calls) > Len(P)
        /\ \A i \in 1 .. Len(calls) : \A k \in 1 .. Len(calls) :
              (calls[i][1] = "save" /\ calls[k][1] \in {"save_best", "log_epoch"}) => i < k

C1_Witness ==
    /\ pc = "log"
    /\ j = 1
    /\ cfg.num_steps = 2
    /\ CountCalls("insert") = 2

\* C2: the loop ends normally after exactly floor(floor(num_frames / num_steps) /
\* num_processes) iterations, each run once, and the storage has then received
\* that many times num_steps inserts.
C2_IterationCount ==
    LET n == (cfg.num_frames \div cfg.num_steps) \div cfg.num_processes
    IN  /\ j <= n
        /\ model_ver <= n
        /\ inserts <= n * cfg.num_steps
        /\ pc = "done" => (j = n /\ model_ver = n /\ inserts = n * cfg.num_steps)
        /\ pc = "for_j" => (model_ver = j /\ inserts = j * cfg.num_steps)

C2_Witness == pc = "done" /\ j = 2 /\ cfg.num_steps = 2 /\ inserts = 4

C2_WitnessZero == pc = "done" /\ j = 0 /\ cfg.num_frames > 0

\* C3: the policy always acts on the latest frame: at step 0 of iteration 0 on
\* the observation reset returned, at step 0 of a later iteration on the
\* observation, recurrent state and mask the last insert of the iteration before
\* put into slot T, so that the frames acted on are 0, 1, 2, ... without a gap
\* or a repeat.
C3_Continuity ==
    pc = "env_step" =>
        /\ act_out.slot = step
        /\ act_out.obs = env.t
        /\ act_out.state = env.t
        /\ env.t = j * cfg.num_steps + step
        /\ env.t > 0 => act_out.mask = [e \in Envs |-> IF env.done[e] THEN 0 ELSE 1]
        /\ (step = 0 /\ j = 0) => act_out.obs = 0
        /\ (step = 0 /\ j > 0) =>
              /\ act_out.obs = rollouts.observations[cfg.num_steps]
              /\ act_out.state = rollouts.states[cfg.num_steps]
              /\ act_out.mask = rollouts.masks[cfg.num_steps]

C3_Witness ==
    /\ pc = "env_step"
    /\ j = 1
    /\ step = 0
    /\ cfg.num_steps = 2
    /\ act_out.obs = 2
    /\ \E e \in Envs : act_out.mask[e] = 0

Fresh(files, tag) == tag \in DOMAIN files /\ files[tag] = model_ver

NumberedFresh(files) ==
    \E tag \in DOMAIN files : tag[1] = "numbered" /\ files[tag] = model_ver

\* C4 as stated: every iteration overwrites "latest", also one that writes a
\* numbered snapshot and also the last one.
C4_LatestEveryIteration ==
    pc = "save_best" => Fresh(disk, <<"latest", 0>>)

\* C4, amended: an iteration whose checkpoint write succeeds overwrites "latest"
\* exactly when it writes no numbered snapshot; with a save directory configured
\* the last iteration writes a numbered snapshot and leaves "latest" alone, and
\* without one every iteration overwrites "latest".
C4_LatestUnlessNumbered ==
    pc = "save_best" =>
        /\ Fresh(disk, <<"latest", 0>>) <=> ~NumberedFresh(disk)
        /\ Fresh(drive, <<"latest", 0>>) <=> ~NumberedFresh(drive)
        /\ (cfg.save_dir # "" /\ j = num_updates - 1) => ~Fresh(disk, <<"latest", 0>>)
        /\ cfg.save_dir = "" => Fresh(disk, <<"latest", 0>>)

C4_Witness ==
    /\ pc = "save_best"
    /\ NumberedFresh(disk)
    /\ <<"latest", 0>> \in DOMAIN disk
    /\ disk[<<"latest", 0>>] < model_ver

NumberedTags(files) == {tag \in DOMAIN files : tag[1] = "numbered"}

C6_BestIffMeanImproves ==
    [][(pc = "save_best" /\ pc' = "log") =>
          (Fresh(disk, BestTag)' <=>
              (Len(episode_rewards) > 0 /\ RGt(Mean(episode_rewards), max_ep_reward)))]_vars

\* C6, amended: the iteration overwrites "best" if and only if the window holds
\* more than one episode reward and its mean is strictly greater than the best
\* mean so far; the recorded best mean then becomes that mean, it changes at no
\* other time, and it never decreases.
C6_BestIffWindowAndMeanImproves ==
    [][LET better == Len(episode_rewards) > 1
                     /\ Mean(episode_rewards)[1] * max_ep_reward[2]
                            > max_ep_reward[1] * Mean(episode_rewards)[2]
       IN  /\ (pc = "save_best" /\ pc' = "log") =>
                  /\ Fresh(disk, BestTag)' <=> better
                  /\ Fresh(drive, BestTag)' <=> better
                  /\ max_ep_reward' = IF better THEN Mean(episode_rewards) ELSE max_ep_reward
           /\ (pc = "save_best" /\ pc' = "crashed") => better
           /\ pc # "save_best" => max_ep_reward' = max_ep_reward
           /\ ~RGt(max_ep_reward, max_ep_reward')]_vars

C6_Witness ==
    /\ pc = "log"
    /\ j >= 1
    /\ Fresh(disk, BestTag)
    /\ max_ep_reward = <<3, 2>>

C6_WitnessNoWrite ==
    /\ pc = "log"
    /\ BestTag \in DOMAIN disk
    /\ disk[BestTag] < model_ver
    /\ Len(episode_rewards) = 2

\* C7 as stated: every iteration hands the logger exactly one record.
C7_OneRecordPerIteration ==
    pc = "for_j" =>
        /\ Len(log) = j
        /\ \A i \in 1 .. Len(log) : log[i].iter = i

\* C7, amended: an iteration that reaches its logging step hands the logger one
\* record, with iter = j+1 and total_num_steps = (j+1)*num_processes*num_steps,
\* if the reward window holds more than one episode reward, and none otherwise.
C7_OneRecordWhenWindowFilled ==
    /\ Len(log) <= j + 1
    /\ \A i \in 1 .. Len(log) :
          /\ log[i].iter \in 1 .. (j + 1)
          /\ log[i].total_num_steps = log[i].iter * cfg.num_processes * cfg.num_steps
          /\ i > 1 => log[i - 1].iter < log[i].iter
    /\ (pc = "for_j" /\ j > 0) =>
          ((Len(log) > 0 /\ log[Len(log)].iter = j) <=> Len(episode_rewards) > 1)

C7_Witness ==
    /\ pc = "for_j"
    /\ j = 2
    /\ Len(log) = 1
    /\ log[1].iter = 2
    /\ log[1].total_num_steps = 4

\* C8 as stated: a failed checkpoint write does not end the run.
C8_SaveFailureNotFatal == pc # "crashed"

----------------------------------------------------------------------------
(* compute_returns on the buffers the driver fills. *)

Values == {0, 1}

\* one iteration of a run whose critic returns both values, under both modes of
\* compute_returns and several discount factors
ConfigsReturns ==
    { c \in [ num_frames    : {3, 4},
              num_steps     : {2, 3},
              num_processes : {1, 2},
              save_every    : {RInt(4)},
              save_dir      : {"models"},
              use_gae       : BOOLEAN,
              gamma         : {<<1, 2>>, <<3, 4>>},
              gae_lambda    : {<<1, 2>>, <<1, 1>>} ] :
        /\ c.num_frames = c.num_steps * c.num_processes
        /\ c.num_steps = 3 <=> c.num_processes = 1
        /\ c.num_processes = 2 => (c.gamma = <<3, 4>> /\ c.gae_lambda = <<1, 2>>) }

InitReturns == \E c \in ConfigsReturns : InitWith(c, Values, Rewards, {})

SpecReturns == InitReturns /\ [][Next]_vars

\* what a second run may hold where it is free to differ from the first
Perturbed == {0, 2}

\* the columns a second run can hold that agree with col on the slots 0 .. upto
Variants(col, upto, last) ==
    { f \in [0 .. last -> Perturbed \cup {col[s] : s \in 0 .. last}] :
          \A s \in 0 .. last : s <= upto => f[s] = col[s] }

\* C9: when mask[t+1] = 0 for an environment, its returns[0..t] are the same in
\* every run that has the same rewards[0..t], values[0..t] and masks[0..t+1],
\* whatever its later values, rewards and bootstrap value are, in both modes;
\* and the mask the driver inserts after a step is 0 exactly for the
\* environments whose done flag is set.
C9_BoundaryIsolation ==
    LET T == cfg.num_steps
    IN  /\ (rollouts.step > 0 /\ pc \in {"act", "get_value"}) =>
              \A e \in Envs : rollouts.masks[rollouts.step][e] = 0 <=> env.done[e]
        /\ pc = "update" =>
              \A e \in Envs : \A t \in 0 .. (T - 1) :
                  rollouts.masks[t + 1][e] = 0 =>
                      LET rew == [s \in 0 .. (T - 1) |-> rollouts.rewards[s][e]]
                          val == [s \in 0 .. (T - 1) |-> rollouts.values[s][e]]
                          msk == [s \in 0 .. T |-> rollouts.masks[s][e]]
                          old == [s \in 0 .. T |-> RInt(0)]
                      IN  \A rew2 \in Variants(rew, t, T - 1) :
                          \A val2 \in Variants(val, t, T - 1) :
                          \A boot2 \in Perturbed \cup Values :
                              LET ret2 == ReturnsCol(rew2, val2, msk, boot2, cfg.use_gae,
                                                     cfg.gamma, cfg.gae_lambda, T, old)
                              IN  \A s \in 0 .. t : ret2[s] = rollouts.returns[s][e]

C9_Witness ==
    /\ pc = "update"
    /\ cfg.num_steps = 3
    /\ cfg.use_gae
    /\ rollouts.masks[2][0] = 0
    /\ rollouts.masks[1][0] = 1
    /\ rollouts.masks[3][0] = 1
    /\ rollouts.values[2][0] = 1
    /\ rollouts.rewards[2][0] = 1
    /\ next_value[0] = 1
    /\ rollouts.returns[2][0] # RInt(1)

----------------------------------------------------------------------------
(* The end-to-end scenario: T = 4, N = 2, all rewards equal, every mask 1   *)
(* except mask[2] of environment 0.                                         *)

ScenarioConfigs ==
    [ num_frames    : {8},
      num_steps     : {4},
      num_processes : {2},
      save_every    : {RInt(8)},
      save_dir      : {"models"},
      use_gae       : {TRUE},
      gamma         : {<<1, 2>>, <<3, 4>>},
      gae_lambda    : {<<1, 2>>, <<1, 1>>} ]

ScenarioMasks == [s \in 0 .. 4 |-> [e \in 0 .. 1 |-> IF s = 2 /\ e = 0 THEN 0 ELSE 1]]

\* the driver after the fourth insert of iteration 0, about to bootstrap
InitScenario ==
    \E c \in ScenarioConfigs, r \in {1, 2}, vals \in [0 .. 3 -> [0 .. 1 -> Values]] :
        /\ cfg = c
        /\ critic = Values
        /\ num_updates = NumUpdates(c.num_frames, c.num_steps, c.num_processes)
        /\ j = 0
        /\ step = 4
        /\ pc = "get_value"
        /\ current_obs = 4
        /\ rollouts = [ observations |-> [s \in 0 .. 4 |-> s],
                        states       |-> [s \in 0 .. 4 |-> s],
                        masks        |-> ScenarioMasks,
                        rewards      |-> [s \in 0 .. 3 |-> [e \in 0 .. 1 |-> r]],
                        values       |-> vals,
                        returns      |-> [s \in 0 .. 4 |-> [e \in 0 .. 1 |-> RInt(0)]],
                        step         |-> 4 ]
        /\ env = [ t |-> 4,
                   done |-> [e \in 0 .. 1 |-> FALSE],
                   rewards |-> {r},
                   episodes |-> {} ]
        /\ act_out = [ slot |-> 3, obs |-> 3, state |-> 3, mask |-> ScenarioMasks[3],
                       value |-> vals[3], states |-> 4 ]
        /\ next_value = [e \in 0 .. 1 |-> 0]
        /\ episode_rewards = <<>>
        /\ next_checkpoint = c.save_every
        /\ max_ep_reward = NegInf
        /\ model_ver = 0
        /\ drive = <<>>
        /\ disk = <<>>
        /\ log = <<>>
        /\ calls = SubSeq(IterationPattern(4, 0), 1, 13)
        /\ inserts = 4

NextScenario ==
    \/ GetValue
    \/ ComputeReturns

SpecScenario == InitScenario /\ [][NextScenario]_vars

InScenario ==
    /\ pc = "update"
    /\ cfg.use_gae
    /\ cfg.num_steps = 4
    /\ cfg.num_processes = 2
    /\ rollouts.masks = ScenarioMasks
    /\ \A s \in 0 .. 3 : \A e \in 0 .. 1 : rollouts.rewards[s][e] = rollouts.rewards[0][0]

Advantage(t, e) == RSub(rollouts.returns[t][e], RInt(rollouts.values[t][e]))

\* the advantage at t with the lookahead through values[t+1], reward[t+1] and v2,
\* the value after that: delta_t + gamma * lambda * delta_(t+1)
Lookahead(t, e, v2) ==
    LET g == cfg.gamma
        l == cfg.gae_lambda
        r(s) == RInt(rollouts.rewards[s][e])
        v(s) == RInt(rollouts.values[s][e])
        d0 == RSub(RAdd(r(t), RMul(g, v(t + 1))), v(t))
        d1 == RSub(RAdd(r(t + 1), RMul(g, v2)), v(t + 1))
    IN  RAdd(d0, RMul(RMul(g, l), d1))

\* C10 as stated: the advantage of environment 0 at t = 2 is reward[2] - values[2].
C10_ZeroCreditAtTwo ==
    InScenario => Advantage(2, 0) = RInt(rollouts.rewards[2][0] - rollouts.values[2][0])

\* C10, amended: mask[2] = 0 cuts the credit of the step before it: the advantage
\* of environment 0 at t = 1 is reward[1] - values[1].  At t = 2 the advantage of
\* environment 0, like that of environment 1, has the discounted lookahead
\* through values[3], reward[3] and the bootstrap value.
C10_ZeroCreditAtOne ==
    InScenario =>
        /\ Advantage(1, 0) = RInt(rollouts.rewards[1][0] - rollouts.values[1][0])
        /\ Advantage(2, 0) = Lookahead(2, 0, RInt(next_value[0]))
        /\ Advantage(2, 1) = Lookahead(2, 1, RInt(next_value[1]))
        /\ Advantage(3, 1) = RSub(RAdd(RInt(rollouts.rewards[3][1]),
                                       RMul(cfg.gamma, RInt(next_value[1]))),
                                  RInt(rollouts.values[3][1]))

C10_Witness ==
    /\ InScenario
    /\ cfg.gamma # cfg.gae_lambda
    /\ rollouts.values[3][0] = 1
    /\ rollouts.values[3][1] = 1
    /\ next_value[0] = 1
    /\ next_value[1] = 1
    /\ Advantage(2, 1) # RInt(rollouts.rewards[2][1] - rollouts.values[2][1])

====
